---- MODULE Spec2Model ----
(***************************************************************************)
(* Model of scripts/scrape_ricoh_firmware.py: one run of main(), which     *)
(* fetches the Ricoh support page, extracts (model, version) pairs from    *)
(* the tables that follow the qualifying headings, and writes              *)
(* ricoh_firmware.json.                                                    *)
(*                                                                         *)
(* A Python str is a sequence of one-character strings.  A parsed document *)
(* is the sequence of its heading, table and other elements in document    *)
(* order; an element carries the text nodes below it (strings) and, for a  *)
(* table, its tr rows; a row is the sequence of its td/th cells.           *)
(* A dict is a function from its key set.                                  *)
(***************************************************************************)
EXTENDS Integers, Sequences, FiniteSets, TLC

\* ------------------------------------------------------------------ bounds
MaxDoc == 4
MaxRows == 4

\* ------------------------------------------------------------- str helpers
Whitespace == {" ", "\n", "\t"}

IsSpace(c) == c \in Whitespace

RECURSIVE lstrip(_)
lstrip(s) == IF s = <<>> THEN <<>>
             ELSE IF IsSpace(Head(s)) THEN lstrip(Tail(s)) ELSE s

RECURSIVE rstrip(_)
rstrip(s) == IF s = <<>> THEN <<>>
             ELSE IF IsSpace(s[Len(s)]) THEN rstrip(SubSeq(s, 1, Len(s) - 1)) ELSE s

\* str.strip()
strip(s) == rstrip(lstrip(s))

\* re.sub(r'\s+', ' ', s): every maximal whitespace run becomes one space
RECURSIVE re_sub_ws(_)
re_sub_ws(s) == IF s = <<>> THEN <<>>
                ELSE IF IsSpace(Head(s)) THEN <<" ">> \o re_sub_ws(lstrip(s))
                ELSE <<Head(s)>> \o re_sub_ws(Tail(s))

\* Python's  sub in s
Contains(s, sub) == \E i \in 0..(Len(s) - Len(sub)) : \A j \in 1..Len(sub) : s[i + j] = sub[j]

LowerCase == <<"a", "b", "c", "d", "e", "f", "g", "h", "i", "j", "k", "l", "m",
               "n", "o", "p", "q", "r", "s", "t", "u", "v", "w", "x", "y", "z">>

UpperCase == <<"A", "B", "C", "D", "E", "F", "G", "H", "I", "J", "K", "L", "M",
               "N", "O", "P", "Q", "R", "S", "T", "U", "V", "W", "X", "Y", "Z">>

\* str.upper()
upper(s) == [i \in 1..Len(s) |->
               IF \E j \in 1..Len(LowerCase) : LowerCase[j] = s[i]
               THEN UpperCase[CHOOSE j \in 1..Len(LowerCase) : LowerCase[j] = s[i]]
               ELSE s[i]]

\* Tag.get_text(strip=True): every text node stripped, the empty ones dropped,
\* the rest joined with no separator
RECURSIVE get_text(_)
get_text(strings) == IF strings = <<>> THEN <<>>
                     ELSE strip(Head(strings)) \o get_text(Tail(strings))

\* ------------------------------------------------------------ dict helpers
EmptyDict == [k \in {} |-> <<>>]

\* d[key] = value
dict_set(d, key, value) == [k \in DOMAIN d \cup {key} |-> IF k = key THEN value ELSE d[k]]

\* a merge that keeps the entries already there
dict_update_keep_existing(d, other) == [k \in DOMAIN d \cup DOMAIN other |->
                                          IF k \in DOMAIN d THEN d[k] ELSE other[k]]

\* d.update(other)
dict_update(d, other) == [k \in DOMAIN d \cup DOMAIN other |->
                            IF k \in DOMAIN other THEN other[k] ELSE d[k]]

\* --------------------------------------------------------------- extractor
\* the name only stripped
normalize_model_name_strip_only(model_name) == strip(model_name)

normalize_model_name(model_name) == re_sub_ws(strip(model_name))

\* row.find_all('td')
find_all_td(row) == SelectSeq(row, LAMBDA c : c.tag = "td")

MinCells == 3

\* the version read from the second cell
row_step_second_cell(cams, row) ==
    LET cells == find_all_td(row) IN
    IF Len(cells) >= MinCells
    THEN LET model_name == get_text(cells[1].strings)
             version == get_text(cells[2].strings)
         IN IF model_name # <<>> /\ version # <<>>
            THEN dict_set(cams, normalize_model_name(model_name), version)
            ELSE cams
    ELSE cams

\* a row kept when only one of model name and version is there
row_step_either(cams, row) ==
    LET cells == find_all_td(row) IN
    IF Len(cells) >= MinCells
    THEN LET model_name == get_text(cells[1].strings)
             version == get_text(cells[3].strings)
         IN IF model_name # <<>> \/ version # <<>>
            THEN dict_set(cams, normalize_model_name(model_name), version)
            ELSE cams
    ELSE cams

\* one iteration of the loop over the rows
row_step(cams, row) ==
    LET cells == find_all_td(row) IN
    IF Len(cells) >= MinCells
    THEN LET model_name == get_text(cells[1].strings)
             version == get_text(cells[3].strings)
         IN IF model_name # <<>> /\ version # <<>>
            THEN dict_set(cams, normalize_model_name(model_name), version)
            ELSE cams
    ELSE cams

\* table.find_all('tr')[1:] starts the loop at the second row
FirstDataRow == 2

RECURSIVE extract_rows(_, _, _)
extract_rows(trs, i, cams) == IF i > Len(trs) THEN cams
                              ELSE extract_rows(trs, i + 1, row_step(cams, trs[i]))

extract_firmware_from_table(trs) == extract_rows(trs, FirstDataRow, EmptyDict)

HeadingTags == {"h4", "h5", "h6"}

RECURSIVE find_all_from(_, _)
find_all_from(d, i) == IF i > Len(d) THEN <<>>
                       ELSE IF d[i].tag \in HeadingTags
                            THEN <<i>> \o find_all_from(d, i + 1)
                            ELSE find_all_from(d, i + 1)

\* soup.find_all(['h4', 'h5', 'h6']): the positions of the headings, in document order
find_all_headings(d) == find_all_from(d, 1)

FIRMWARE_UPDATE == <<"F", "i", "r", "m", "w", "a", "r", "e", " ", "U", "p", "d", "a", "t", "e">>

DIGITAL == <<"D", "i", "g", "i", "t", "a", "l">>

\* one of the two substrings is enough
Qualifies_either(heading_text) == Contains(heading_text, FIRMWARE_UPDATE) \/ Contains(heading_text, DIGITAL)

Qualifies(heading_text) == Contains(heading_text, FIRMWARE_UPDATE) /\ Contains(heading_text, DIGITAL)

\* the table only if it is the very next element
find_next_table_adjacent(d, h) ==
    IF h + 1 <= Len(d) /\ d[h + 1].tag = "table" THEN h + 1 ELSE 0

\* heading.find_next('table'): the position of the first table after position h, 0 for None
find_next_table(d, h) ==
    IF \E t \in (h + 1)..Len(d) : d[t].tag = "table"
    THEN CHOOSE t \in (h + 1)..Len(d) :
            d[t].tag = "table" /\ \A u \in (h + 1)..(t - 1) : d[u].tag # "table"
    ELSE 0

\* ------------------------------------------------------------------ writer
GR == <<"G", "R">>

gr_models_of(cams) == [k \in {m \in DOMAIN cams : Contains(upper(m), GR)} |-> cams[k]]

Digit(n) == <<"0", "1", "2", "3", "4", "5", "6", "7", "8", "9">>[n + 1]

Pad2(n) == <<Digit(n \div 10), Digit(n % 10)>>

Pad4(n) == Pad2(n \div 100) \o Pad2(n % 100)

\* strftime("%Y-%m-%dT%H:%M:%SZ") of an instant <<Y, M, D, h, m, s>>
strftime(t) == Pad4(t[1]) \o <<"-">> \o Pad2(t[2]) \o <<"-">> \o Pad2(t[3]) \o <<"T">>
               \o Pad2(t[4]) \o <<":">> \o Pad2(t[5]) \o <<":">> \o Pad2(t[6]) \o <<"Z">>

\* ------------------------------------------------------ inputs: the strings
S_Model == <<"M", "o", "d", "e", "l">>

S_Content == <<"C", "o", "n", "t", "e", "n", "t">>

S_Version == <<"V", "e", "r", "s", "i", "o", "n">>

S_GR3 == <<"G", "R", " ", "I", "I", "I">>

S_GR3_spaced == <<"G", "R", " ", " ", " ", "I", "I", "I", "\n">>

S_GR3x == <<"G", "R", " ", "I", "I", "I", "x">>

S_K3 == <<"K", "-", "3">>

S_x == <<"x">>

S_note == <<"n", "o", "t", "e">>

S_blank == <<" ", "\n">>

S_v10 == <<"1", ".", "0">>

S_v20 == <<"2", ".", "0">>

S_v11_gap == <<"1", " ", " ", "1">>

S_v30_padded == <<" ", "3", ".", "0", "\t">>

S_v99 == <<"9", ".", "9">>

S_GR_frag == <<"G", "R", " ">>

S_III_frag == <<"I", "I", "I">>

S_4_frag == <<" ", "4">>

S_0_frag == <<".", "0", " ">>

S_OLD == <<"O", "L", "D">>

S_v01 == <<"0", ".", "1">>

S_h_SL == <<"F", "i", "r", "m", "w", "a", "r", "e", " ", "U", "p", "d", "a", "t", "e", " ", "(", "D", "i", "g", "i", "t", "a", "l", " ", "S", "L", " ", "C", "a", "m", "e", "r", "a", "s", ")">>

S_h_Digital_frag == <<" ", " ", "D", "i", "g", "i", "t", "a", "l", " ">>

S_h_FU_frag == <<"F", "i", "r", "m", "w", "a", "r", "e", " ", "U", "p", "d", "a", "t", "e", "\n">>

S_h_Film == <<"F", "i", "r", "m", "w", "a", "r", "e", " ", "U", "p", "d", "a", "t", "e", " ", "(", "F", "i", "l", "m", " ", "C", "a", "m", "e", "r", "a", "s", ")">>

S_h_Accessories == <<"D", "i", "g", "i", "t", "a", "l", " ", "A", "c", "c", "e", "s", "s", "o", "r", "i", "e", "s">>

S_h_lower == <<"f", "i", "r", "m", "w", "a", "r", "e", " ", "u", "p", "d", "a", "t", "e", " ", "(", "d", "i", "g", "i", "t", "a", "l", ")">>

S_p == <<"D", "o", "w", "n", "l", "o", "a", "d", "s">>

\* ----------------------------------------------------- inputs: page content
Td(strings) == [tag |-> "td", strings |-> strings]

Th(strings) == [tag |-> "th", strings |-> strings]

RowHeader == <<Th(<<S_Model>>), Th(<<S_Content>>), Th(<<S_Version>>)>>

RowGR3 == <<Td(<<S_GR3>>), Td(<<S_x>>), Td(<<S_v10>>)>>

RowGR3Spaced == <<Td(<<S_GR3_spaced>>), Td(<<S_x>>), Td(<<S_v20>>)>>

RowK3 == <<Td(<<S_K3>>), Td(<<S_x>>), Td(<<S_v11_gap>>)>>

RowFourCells == <<Td(<<S_GR3x>>), Td(<<S_x>>), Td(<<S_v30_padded>>), Td(<<S_note>>)>>

RowFragments == <<Td(<<S_GR_frag, S_III_frag>>), Td(<<S_x>>), Td(<<S_4_frag, S_0_frag>>)>>

RowTwoCells == <<Td(<<S_K3>>), Td(<<S_v99>>)>>

RowThFirst == <<Th(<<S_K3>>), Td(<<S_x>>), Td(<<S_v99>>)>>

RowBlankName == <<Td(<<S_blank>>), Td(<<S_x>>), Td(<<S_v20>>)>>

RowNoVersion == <<Td(<<S_K3>>), Td(<<S_x>>), Td(<<>>)>>

RowPool == {RowHeader, RowGR3, RowGR3Spaced, RowK3, RowFourCells, RowFragments,
            RowTwoCells, RowThFirst, RowBlankName, RowNoVersion}

\* the tables the table extractor is run on by itself
Tables == UNION {[1..n -> RowPool] : n \in 0..MaxRows}

Heading(tag, strings) == [tag |-> tag, strings |-> strings, rows |-> <<>>]

Table(rows) == [tag |-> "table", strings |-> <<>>, rows |-> rows]

TableSL == Table(<<RowHeader, RowGR3, RowK3>>)

TableCompact == Table(<<RowHeader, RowGR3, RowGR3Spaced, RowFourCells>>)

TableNoData == Table(<<RowHeader, RowTwoCells, RowBlankName>>)

\* the elements of the pages that vary what follows a qualifying heading
ExtractionPool == {Heading("h4", <<S_h_SL>>),
                   Heading("p", <<S_p>>),
                   TableSL, TableCompact, TableNoData}

\* the elements of the pages that vary the headings
HeadingPool == {Heading("h6", <<S_h_Digital_frag, S_h_FU_frag>>),
                Heading("h4", <<S_h_Film>>),
                Heading("h5", <<S_h_Accessories>>),
                Heading("h4", <<S_h_lower>>),
                Heading("h3", <<S_h_SL>>),
                TableSL}

\* the documents the server may answer with
Docs == UNION {[1..n -> ExtractionPool] \cup [1..n -> HeadingPool] : n \in 0..MaxDoc}

\* the status codes the server may answer with
Statuses == {200, 300, 404, 503}

\* Response.raise_for_status() raises HTTPError for a 4xx or 5xx status
raise_for_status(status) == 400 <= status /\ status < 600

\* the instants datetime.now(timezone.utc) may return
Clock == {<<2026, 11, 4, 12, 0, 0>>, <<2026, 11, 4, 12, 0, 1>>}

\* ricoh_firmware.json as a previous run may have left it
OldFile == [last_updated |-> strftime(<<2024, 1, 1, 0, 0, 0>>), cameras |-> dict_set(EmptyDict, S_OLD, S_v01)]

\* ------------------------------------------------------------------- state
VARIABLES
    pc,              \* position of the run
    fetch_result,    \* "none", "ok", "RequestException" (transport) or "HTTPError" (status)
    requests_made,   \* number of HTTP requests sent
    doc,             \* soup
    headings,        \* positions in doc of soup.find_all(['h4', 'h5', 'h6'])
    hi,              \* index in headings of the heading the loop is at
    all_cameras,     \* scrape_ricoh_firmware's all_cameras / main's cameras
    processed,       \* <<heading position, table position>> of every "Processing table under" line
    table,           \* the tr rows of the table passed to extract_firmware_from_table
    ri,              \* index in table of the row the row loop is at
    cameras,         \* extract_firmware_from_table's cameras
    file,            \* ricoh_firmware.json: {} when absent, else {its content}
    file0,           \* ricoh_firmware.json as the run found it
    writes,          \* number of times the run opened the file for writing
    gr_models,       \* the GR summary printed
    steps,           \* the pipeline steps completed, in order
    exit_code        \* "none" while running, else the process exit code

vars == <<pc, fetch_result, requests_made, doc, headings, hi, all_cameras, processed,
          table, ri, cameras, file, file0, writes, gr_models, steps, exit_code>>

scrape_vars == <<doc, headings, hi, all_cameras, processed>>

table_vars == <<table, ri, cameras>>

Init ==
    /\ pc = "fetch"
    /\ fetch_result = "none"
    /\ requests_made = 0
    /\ doc = <<>>
    /\ headings = <<>>
    /\ hi = 1
    /\ all_cameras = EmptyDict
    /\ processed = <<>>
    /\ table = <<>>
    /\ ri = FirstDataRow
    /\ cameras = EmptyDict
    /\ file0 \in {{}, {OldFile}}
    /\ file = file0
    /\ writes = 0
    /\ gr_models = EmptyDict
    /\ steps = <<>>
    /\ exit_code = "none"

\* ----------------------------------------------------------------- actions
\* the error reported but the run carried on with an empty page
FetchFailed_carry_on(exception) ==
    /\ fetch_result' = exception
    /\ doc' = <<>>
    /\ headings' = <<>>
    /\ hi' = 1
    /\ all_cameras' = EmptyDict
    /\ pc' = "headings"
    /\ UNCHANGED <<processed, exit_code>>

\* requests.get raised (a transport error), or raise_for_status raised: sys.exit(1)
FetchFailed(exception) ==
    /\ fetch_result' = exception
    /\ exit_code' = 1
    /\ pc' = "done"
    /\ UNCHANGED scrape_vars

\* the response parsed, the headings collected, all_cameras = {}
FetchSucceeded ==
    /\ fetch_result' = "ok"
    /\ doc' \in Docs
    /\ headings' = find_all_headings(doc')
    /\ hi' = 1
    /\ all_cameras' = EmptyDict
    /\ pc' = "headings"
    /\ UNCHANGED <<processed, exit_code>>

Fetch ==
    /\ pc = "fetch"
    /\ requests_made' = requests_made + 1
    /\ steps' = Append(steps, "fetch")
    /\ \/ FetchFailed("RequestException")
       \/ \E status \in Statuses :
            IF raise_for_status(status)
            THEN FetchFailed("HTTPError")
            ELSE FetchSucceeded
    /\ UNCHANGED <<table_vars, file, file0, writes, gr_models>>

\* one iteration of the loop over the headings
ProcessHeading ==
    /\ pc = "headings"
    /\ hi <= Len(headings)
    /\ LET h == headings[hi]
           heading_text == get_text(doc[h].strings)
           t == find_next_table(doc, h)
       IN IF Qualifies(heading_text) /\ t # 0
          THEN /\ processed' = Append(processed, <<h, t>>)
               /\ table' = doc[t].rows
               /\ ri' = Len(doc[t].rows) + 1
               /\ cameras' = extract_firmware_from_table(doc[t].rows)
               /\ all_cameras' = dict_update(all_cameras, cameras')
          ELSE UNCHANGED <<processed, table_vars, all_cameras>>
    /\ hi' = hi + 1
    /\ UNCHANGED <<pc, fetch_result, requests_made, doc, headings, file, file0, writes,
                   gr_models, steps, exit_code>>

\* the loop is over: scrape_ricoh_firmware returns all_cameras
ScrapeReturn ==
    /\ pc = "headings"
    /\ hi > Len(headings)
    /\ pc' = "validate"
    /\ steps' = Append(steps, "extract")
    /\ UNCHANGED <<fetch_result, requests_made, scrape_vars, table_vars, file, file0,
                   writes, gr_models, exit_code>>

\* the empty result reported with exit code 0
Validate_exit_zero ==
    /\ pc = "validate"
    /\ steps' = Append(steps, "validate")
    /\ IF DOMAIN all_cameras = {}
       THEN pc' = "done" /\ exit_code' = 0
       ELSE pc' = "write" /\ UNCHANGED exit_code
    /\ UNCHANGED <<fetch_result, requests_made, scrape_vars, table_vars, file, file0,
                   writes, gr_models>>

\* the empty result reported but the run not ended
Validate_fall_through ==
    /\ pc = "validate"
    /\ steps' = Append(steps, "validate")
    /\ pc' = "write"
    /\ UNCHANGED <<fetch_result, requests_made, scrape_vars, table_vars, file, file0,
                   writes, gr_models, exit_code>>

\* main: if not cameras: sys.exit(1)
Validate ==
    /\ pc = "validate"
    /\ steps' = Append(steps, "validate")
    /\ IF DOMAIN all_cameras = {}
       THEN pc' = "done" /\ exit_code' = 1
       ELSE pc' = "write" /\ UNCHANGED exit_code
    /\ UNCHANGED <<fetch_result, requests_made, scrape_vars, table_vars, file, file0,
                   writes, gr_models>>

\* the new mapping merged into the cameras of the file already there
Write_merge ==
    /\ pc = "write"
    /\ \E now \in Clock :
         file' = {[last_updated |-> strftime(now),
                   cameras |-> IF file = {} THEN all_cameras
                               ELSE dict_update((CHOOSE f \in file : TRUE).cameras, all_cameras)]}
    /\ writes' = writes + 1
    /\ steps' = Append(steps, "write")
    /\ pc' = "summarize"
    /\ UNCHANGED <<fetch_result, requests_made, scrape_vars, table_vars, file0,
                   gr_models, exit_code>>

\* main: the output built and dumped to ricoh_firmware.json, opened with "w"
Write ==
    /\ pc = "write"
    /\ \E now \in Clock :
         file' = {[last_updated |-> strftime(now), cameras |-> all_cameras]}
    /\ writes' = writes + 1
    /\ steps' = Append(steps, "write")
    /\ pc' = "summarize"
    /\ UNCHANGED <<fetch_result, requests_made, scrape_vars, table_vars, file0,
                   gr_models, exit_code>>

\* main: the GR summary printed, then main returns and the process exits with 0
Summarize ==
    /\ pc = "summarize"
    /\ gr_models' = gr_models_of(all_cameras)
    /\ steps' = Append(steps, "summarize")
    /\ exit_code' = 0
    /\ pc' = "done"
    /\ UNCHANGED <<fetch_result, requests_made, scrape_vars, table_vars, file, file0, writes>>

Next == Fetch \/ ProcessHeading \/ ScrapeReturn \/ Validate \/ Write \/ Summarize

Spec == Init /\ [][Next]_vars

\* ------------------------------- the table extractor run on a table by itself
InitTable ==
    /\ pc = "rows"
    /\ table \in Tables
    /\ ri = FirstDataRow
    /\ cameras = EmptyDict
    /\ fetch_result = "none"
    /\ requests_made = 0
    /\ doc = <<>>
    /\ headings = <<>>
    /\ hi = 1
    /\ all_cameras = EmptyDict
    /\ processed = <<>>
    /\ file0 = {}
    /\ file = file0
    /\ writes = 0
    /\ gr_models = EmptyDict
    /\ steps = <<>>
    /\ exit_code = "none"

\* one iteration of the loop over the rows
RowLoop ==
    /\ pc = "rows"
    /\ ri <= Len(table)
    /\ cameras' = row_step(cameras, table[ri])
    /\ ri' = ri + 1
    /\ UNCHANGED <<pc, fetch_result, requests_made, scrape_vars, table, file, file0,
                   writes, gr_models, steps, exit_code>>

\* return cameras
ReturnCameras ==
    /\ pc = "rows"
    /\ ri > Len(table)
    /\ pc' = "returned"
    /\ UNCHANGED <<fetch_result, requests_made, scrape_vars, table_vars, file, file0,
                   writes, gr_models, steps, exit_code>>

NextTable == RowLoop \/ ReturnCameras

SpecTable == InitTable /\ [][NextTable]_vars

\* ---------------------------------------------- vocabulary of the properties
\* the first and last positions of s that hold no whitespace delimit s trimmed
Trimmed(s) ==
    IF \A i \in 1..Len(s) : s[i] \in Whitespace THEN <<>>
    ELSE SubSeq(s,
           CHOOSE i \in 1..Len(s) :
               s[i] \notin Whitespace /\ \A j \in 1..(i - 1) : s[j] \in Whitespace,
           CHOOSE i \in 1..Len(s) :
               s[i] \notin Whitespace /\ \A j \in (i + 1)..Len(s) : s[j] \in Whitespace)

\* the maximal whitespace-free runs of s, in order (cur is the run being read)
RECURSIVE SplitWords(_, _)
SplitWords(s, cur) ==
    IF s = <<>> THEN (IF cur = <<>> THEN <<>> ELSE <<cur>>)
    ELSE IF Head(s) \in Whitespace
         THEN (IF cur = <<>> THEN <<>> ELSE <<cur>>) \o SplitWords(Tail(s), <<>>)
         ELSE SplitWords(Tail(s), Append(cur, Head(s)))

RECURSIVE JoinWords(_)
JoinWords(ws) == IF ws = <<>> THEN <<>>
                 ELSE IF Len(ws) = 1 THEN ws[1]
                 ELSE ws[1] \o <<" ">> \o JoinWords(Tail(ws))

\* s trimmed and with every internal whitespace run collapsed to a single space
Collapsed(s) == JoinWords(SplitWords(s, <<>>))

\* the text of an element: its text fragments, each trimmed, joined
RECURSIVE TextOf(_)
TextOf(strings) == IF strings = <<>> THEN <<>>
                   ELSE Trimmed(Head(strings)) \o TextOf(Tail(strings))

\* a cell that is empty or holds only whitespace
Blank(cell) == \A n \in 1..Len(cell.strings) :
                 \A i \in 1..Len(cell.strings[n]) : cell.strings[n][i] \in Whitespace

DataCells(row) == SelectSeq(row, LAMBDA c : c.tag = "td")

\* a row that has three cells, the first and the third not blank
ValidRow(row) == /\ Len(DataCells(row)) >= 3
                 /\ ~Blank(DataCells(row)[1])
                 /\ ~Blank(DataCells(row)[3])

NameOf(row) == Collapsed(TextOf(DataCells(row)[1].strings))

VersionOf(row) == TextOf(DataCells(row)[3].strings)

\* no leading or trailing whitespace and no run of two whitespace characters
TidyKey(k) == /\ k # <<>>
              /\ k[1] \notin Whitespace
              /\ k[Len(k)] \notin Whitespace
              /\ \A i \in 1..(Len(k) - 1) : ~(k[i] \in Whitespace /\ k[i + 1] \in Whitespace)

IsTable(i) == doc[i].tag = "table"

TableAfter(i) == \E t \in (i + 1)..Len(doc) : IsTable(t)

\* the heading loop is past position i
Passed(i) == pc # "headings" \/ \A n \in hi..Len(headings) : headings[n] # i

ProcessedHeadings == {processed[n][1] : n \in 1..Len(processed)}

FetchOk == fetch_result = "ok"

Pipeline == <<"fetch", "extract", "validate", "write", "summarize">>

\* ------------------------------------------------------------------ claims
\* C1: whenever the extractor has returned an empty mapping, the run does not
\* reach the write: the file is as the run found it (unchanged if a previous
\* run left one, absent if none did), and the run ends with exit code 1.
C1_EmptyExtractionExitsWithoutWriting ==
    (FetchOk /\ pc \notin {"fetch", "headings"} /\ DOMAIN all_cameras = {})
        => /\ writes = 0
           /\ file = file0
           /\ pc \in {"validate", "done"}
           /\ (pc = "done" => exit_code = 1)

\* a table was processed but held no valid row, and a previous run's file is there
C1_Witness ==
    /\ pc = "done"
    /\ FetchOk
    /\ DOMAIN all_cameras = {}
    /\ processed # <<>>
    /\ file0 = {OldFile}

C8_FileIsExactlyTheExtraction ==
    writes > 0
        => /\ DOMAIN all_cameras # {}
           /\ \E now \in Clock :
                file = {[last_updated |-> strftime(now), cameras |-> all_cameras]}
           /\ \A f \in file : \A f0 \in file0 :
                \A k \in DOMAIN f.cameras \cap DOMAIN f0.cameras : k \in DOMAIN all_cameras
           /\ (pc = "done" =>
                 /\ exit_code = 0
                 /\ DOMAIN gr_models \subseteq DOMAIN all_cameras
                 /\ \A k \in DOMAIN gr_models : gr_models[k] = all_cameras[k])

\* a previous file is overwritten, and the summary left out a non-GR model
C8_Witness ==
    /\ pc = "done"
    /\ exit_code = 0
    /\ file0 = {OldFile}
    /\ \A f \in file : S_OLD \notin DOMAIN f.cameras /\ S_K3 \in DOMAIN f.cameras
    /\ S_K3 \notin DOMAIN gr_models
    /\ S_GR3 \in DOMAIN gr_models

\* the outcome of a run and the order of its steps
C9_Outcome ==
    /\ steps = SubSeq(Pipeline, 1, Len(steps))
    /\ writes <= 1
    /\ writes = 1 <=> Len(steps) >= 4
    /\ writes = 1 => DOMAIN all_cameras # {}
    /\ pc # "done" => exit_code = "none"
    /\ pc = "done" =>
         /\ exit_code \in {0, 1}
         /\ exit_code = 0 <=> writes = 1
         /\ \/ exit_code = 1 /\ ~FetchOk /\ steps = SubSeq(Pipeline, 1, 1)
            \/ exit_code = 1 /\ FetchOk /\ DOMAIN all_cameras = {}
                 /\ steps = SubSeq(Pipeline, 1, 3)
            \/ exit_code = 0 /\ FetchOk /\ DOMAIN all_cameras # {} /\ steps = Pipeline

\* the steps left to a run
StepsLeft == IF pc = "done" THEN 0
             ELSE (Len(Pipeline) - Len(steps)) * (MaxDoc + 1) + (Len(headings) + 1 - hi) + 1

\* some step is enabled (ProcessHeading is enabled exactly when its guard holds)
CanStep == \/ ENABLED Fetch
           \/ pc = "headings" /\ hi <= Len(headings)
           \/ ENABLED ScrapeReturn
           \/ ENABLED Validate
           \/ ENABLED Write
           \/ ENABLED Summarize

\* C9: the steps done are always a prefix of fetch, extract, validate, write,
\* summarize; the file is written at most once, and only after the non-empty
\* check passed; a finished run is in exactly one of three outcomes (exit 1
\* after a failed fetch, exit 1 after an empty extraction, exit 0), with exit 0
\* exactly when the file was written; and every run finishes: a run that is
\* not over can take a step, and every step leaves strictly fewer steps to take.
C9_LinearPipeline ==
    /\ []C9_Outcome
    /\ [][StepsLeft' < StepsLeft]_vars
    /\ [](pc # "done" => CanStep)

\* a run that processed two tables and went through the five steps
C9_Witness ==
    /\ pc = "done"
    /\ exit_code = 0
    /\ steps = Pipeline
    /\ Len(processed) >= 2

\* the rows that put an entry in the mapping, as <<n, r>>: row r of the table of
\* the n-th processed heading; they are processed in the order of n, then of r
Contributions ==
    UNION {{<<n, r>> : r \in {q \in 2..Len(doc[processed[n][2]].rows) :
                                ValidRow(doc[processed[n][2]].rows[q])}} :
           n \in 1..Len(processed)}

ContributionRow(c) == doc[processed[c[1]][2]].rows[c[2]]

Later(c, d) == c[1] > d[1] \/ (c[1] = d[1] /\ c[2] > d[2])

\* C5: the headings are processed in document order, and the mapping holds
\* exactly one entry for every model name some processed row produced, its
\* version being the one of the last such row (so an earlier table's entries for
\* other names are kept, and a repeated name takes the later version).
C5_LastWriteWins ==
    FetchOk =>
        LET name == [c \in Contributions |-> NameOf(ContributionRow(c))] IN
        /\ \A n \in 1..(Len(processed) - 1) : processed[n][1] < processed[n + 1][1]
        /\ DOMAIN all_cameras = {name[c] : c \in Contributions}
        /\ \A c \in Contributions :
             (\A d \in Contributions : name[d] = name[c] => ~Later(d, c))
             => all_cameras[name[c]] = VersionOf(ContributionRow(c))

\* "GR III" is 2.0 at the end of the earlier table (after 1.0 in the same table)
\* and 1.0 in the later table; "GR IIIx" is in the earlier table only
C5_Witness ==
    /\ pc = "done"
    /\ exit_code = 0
    /\ Len(processed) = 2
    /\ doc[processed[1][2]] = TableCompact
    /\ doc[processed[2][2]] = TableSL
    /\ DOMAIN all_cameras = {S_GR3, S_GR3x, S_K3}
    /\ all_cameras[S_GR3] = S_v10

\* C6: of the elements the loop is past that have a table after them, those
\* whose table was processed are exactly the h4, h5 and h6 headings whose text
\* contains both "Firmware Update" and "Digital", case-sensitively; while no
\* such heading was met, the mapping is empty.
C6_QualifyingHeadings ==
    FetchOk =>
        /\ \A i \in 1..Len(doc) :
             (Passed(i) /\ TableAfter(i)) =>
                 LET text == TextOf(doc[i].strings) IN
                 (i \in ProcessedHeadings
                    <=> /\ doc[i].tag \in {"h4", "h5", "h6"}
                        /\ Contains(text, FIRMWARE_UPDATE)
                        /\ Contains(text, DIGITAL))
        /\ processed = <<>> => DOMAIN all_cameras = {}

\* a lower-case heading, a "Film" heading or an h3 heading precedes a table that
\* a qualifying heading has processed
C6_Witness ==
    /\ pc = "done"
    /\ exit_code = 0
    /\ \E i, j \in 1..Len(doc) :
         /\ i < j
         /\ doc[i] \in {Heading("h4", <<S_h_lower>>), Heading("h3", <<S_h_SL>>),
                        Heading("h4", <<S_h_Film>>), Heading("h5", <<S_h_Accessories>>)}
         /\ j \in ProcessedHeadings
         /\ doc[j].tag = "h6"

FirstTableAfter(i) == CHOOSE t \in (i + 1)..Len(doc) :
                         IsTable(t) /\ \A u \in (i + 1)..Len(doc) : IsTable(u) => t <= u

\* C7: every table processed is the first table after its heading in document
\* order; a qualifying heading the loop is past was processed, with that table,
\* if any table follows it, and else was skipped; a skip ends nothing: the run
\* has no exit code while the loop runs, and each step of the loop moves on to
\* the next heading.
C7_NearestFollowingTable ==
    FetchOk =>
        /\ \A n \in 1..Len(processed) :
             /\ TableAfter(processed[n][1])
             /\ processed[n][2] = FirstTableAfter(processed[n][1])
        /\ \A n \in 1..Len(headings) :
             (Passed(headings[n]) /\ Qualifies(get_text(doc[headings[n]].strings))) =>
                 (headings[n] \in ProcessedHeadings <=> TableAfter(headings[n]))
        /\ pc = "headings" => exit_code = "none" /\ hi <= Len(headings) + 1
        /\ processed # <<>> => table = doc[processed[Len(processed)][2]].rows

\* two qualifying headings select the same table, and a qualifying heading with no
\* table after it is skipped
C7_Witness ==
    /\ pc = "done"
    /\ exit_code = 0
    /\ Len(processed) = 2
    /\ processed[1][2] = processed[2][2]
    /\ \E i \in 1..Len(doc) :
         /\ i > processed[2][2]
         /\ i \notin ProcessedHeadings
         /\ doc[i] = Heading("h4", <<S_h_SL>>)

\* C10: at every point, every key of the table's mapping, of the accumulated
\* mapping and of the file the run wrote is a non-empty string with no leading
\* or trailing whitespace and no run of two whitespace characters, every value
\* is a non-empty string, and no two keys differ only in whitespace.
WellFormed(cams) ==
    LET words == [k \in DOMAIN cams |-> SplitWords(k, <<>>)] IN
    /\ \A k \in DOMAIN cams : TidyKey(k) /\ cams[k] # <<>>
    /\ \A k1, k2 \in DOMAIN cams : words[k1] = words[k2] => k1 = k2

C10_KeysNormalized ==
    /\ WellFormed(cameras)
    /\ WellFormed(all_cameras)
    /\ writes > 0 => \A f \in file : WellFormed(f.cameras)

\* "GR III" and "GR   III\n" of one table are one key of the written file
C10_Witness ==
    /\ pc = "done"
    /\ exit_code = 0
    /\ \E n \in 1..Len(processed) : doc[processed[n][2]] = TableCompact
    /\ \A f \in file : S_GR3 \in DOMAIN f.cameras /\ Cardinality(DOMAIN f.cameras) = 2

\* ------------------------------------- claims about the table extractor alone
\* C3 (as amended): the mapping holds an entry for every row the loop is past
\* that has three cells with text in the first and the third, and every entry
\* comes from such a row, never the first row of the table: its key is the text
\* of the first cell trimmed and with whitespace runs collapsed to one space, its
\* value the text of the third cell, trimmed only (the text of a cell being its
\* text fragments, each trimmed, joined).
C3_EntryOfRow ==
    pc \in {"rows", "returned"} =>
        /\ \A i \in 2..(ri - 1) : ValidRow(table[i]) => NameOf(table[i]) \in DOMAIN cameras
        /\ \A k \in DOMAIN cameras :
             \E i \in 2..(ri - 1) :
                 /\ Len(DataCells(table[i])) >= 3
                 /\ k = NameOf(table[i])
                 /\ cameras[k] = VersionOf(table[i])

\* C3 as stated: the value too has its internal whitespace runs collapsed
C3_AsStated ==
    pc \in {"rows", "returned"} =>
        /\ \A i \in 2..(ri - 1) : ValidRow(table[i]) => NameOf(table[i]) \in DOMAIN cameras
        /\ \A k \in DOMAIN cameras :
             \E i \in 2..(ri - 1) :
                 /\ Len(DataCells(table[i])) >= 3
                 /\ k = NameOf(table[i])
                 /\ cameras[k] = Collapsed(VersionOf(table[i]))

\* the first row is a valid row and contributed nothing; the rows after it gave
\* "GR III" from "GR   III\n" and a version with a whitespace run in it
C3_Witness ==
    /\ pc = "returned"
    /\ Len(table) >= 3
    /\ table[1] = RowFourCells
    /\ S_GR3x \notin DOMAIN cameras
    /\ \E i \in 2..Len(table) : table[i] = RowGR3Spaced
    /\ \E i \in 2..Len(table) : table[i] = RowK3
    /\ DOMAIN cameras = {S_GR3, S_K3}
    /\ cameras[S_GR3] = S_v20
    /\ cameras[S_K3] = S_v11_gap

\* a row with fewer than three cells, or a blank first or third cell
MalformedRow(row) == \/ Len(DataCells(row)) < 3
                     \/ Blank(DataCells(row)[1])
                     \/ Blank(DataCells(row)[3])

\* the step of the loop at a malformed row
C4_MalformedRowStep ==
    (pc = "rows" /\ ri <= Len(table) /\ MalformedRow(table[ri]))
        => /\ cameras' = cameras
           /\ ri' = ri + 1
           /\ pc' = "rows"
           /\ exit_code' = "none"

C4_AllValidRowsReturned ==
    pc = "returned" =>
        \A i \in 2..Len(table) : ~MalformedRow(table[i]) => NameOf(table[i]) \in DOMAIN cameras

\* C4: the step of the loop at a malformed row leaves the mapping as it is and
\* moves on to the next row, with no exit; and the mapping returned has the
\* entry of every valid row of the table, before or after a malformed one.
C4_MalformedRowsSkipped == [][C4_MalformedRowStep]_vars /\ []C4_AllValidRowsReturned

\* a malformed row between two valid rows, all three extracted or skipped
C4_Witness ==
    /\ pc = "returned"
    /\ Len(table) = 4
    /\ table[2] = RowGR3
    /\ table[3] \in {RowTwoCells, RowBlankName, RowNoVersion, RowThFirst}
    /\ table[4] = RowK3
    /\ DOMAIN cameras = {S_GR3, S_K3}

====
